---- MODULE Spec2Model ----
(***************************************************************************)
(* A model of plateflex/estimate.py: the two forward-model adapters, the   *)
(* construction of the pymc3 model in bayes_real_estimate, the sampling of *)
(* its 4 chains, the MAP optimisation, the summary table and get_Te_F.     *)
(*                                                                         *)
(* Numbers are integers in thousandths (0.001) of the source's unit, so    *)
(* that rounding to 2 decimals is rounding to a multiple of 10.            *)
(***************************************************************************)
EXTENDS Integers, Sequences, FiniteSets, TLC

VARIABLES
    cf,            \* plateflex.conf: [samples, tunes], read at line 206
    args,          \* the arguments of the call: k, adm, eadm, coh, ecoh, atyp, typ
    seed,          \* the state of the random generator when the call starts
    pc,            \* position of the call in bayes_real_estimate / get_Te_F
    admit_model,   \* nodes of the pm.Model, in construction order
    step,          \* step method pm.sample ends up with
    chain,         \* per chain: tuning steps done, draws kept, last likelihood mean
    trace,         \* the MultiTrace pm.sample returns: per chain, its draws
    map_method,    \* optimiser pm.find_MAP ends up with
    map_estimate,  \* the dict pm.find_MAP returns
    summary,       \* the table pm.summary(trace).round(2) returns
    result,        \* the tuple get_Te_F returns
    err            \* the exception that ended the call, "" if none

vars == <<cf, args, seed, pc, admit_model, step, chain, trace, map_method,
          map_estimate, summary, result, err>>

----------------------------------------------------------------------------
(* Bounds of the model *)

MaxLen == 2          \* longest input vector
Samples == 1         \* cf.samples of the sampled runs
Tunes == 1           \* cf.tunes of the sampled runs
MaxHpdSamples == 6   \* cf.samples of the runs whose trace is arbitrary

(* cores=4 at line 206: pymc3 runs max(2, cores) chains *)
Chains == 4

(* the seeds a run may start from *)
Seeds == {0, 1}

Modes == {"admit", "coh", "admit_coh", "bogus"}
ValidModes == {"admit", "coh", "admit_coh"}

----------------------------------------------------------------------------
(* Sequence helpers *)

RECURSIVE SeqSum(_)
SeqSum(s) == IF s = <<>> THEN 0 ELSE Head(s) + SeqSum(Tail(s))

RECURSIVE Insert(_, _)
Insert(x, s) ==
    IF s = <<>> THEN <<x>>
    ELSE IF x <= Head(s) THEN <<x>> \o s
    ELSE <<Head(s)>> \o Insert(x, Tail(s))

RECURSIVE np_sort(_)
np_sort(s) == IF s = <<>> THEN <<>> ELSE Insert(Head(s), np_sort(Tail(s)))

RECURSIVE Concatenate(_)
Concatenate(parts) ==
    IF parts = <<>> THEN <<>> ELSE Head(parts) \o Concatenate(Tail(parts))

Vec(base, n) == [i \in 1..n |-> base + i]

----------------------------------------------------------------------------
(* The forward flexure model, plateflex.flexure.real_xspec_functions.      *)
(* It is a pure function of (k, Te, F, alph) returning the admittance and  *)
(* the coherence at every wavenumber; alph has a default.                  *)

alph_default == 90000

AdmFn(kk, Te, F, alph) == (7 * kk + Te + 3 * F + alph) % 997
CohFn(kk, Te, F, alph) == 1000 + ((11 * kk + 3 * Te + F + 2 * alph) % 997)

flex_real_xspec_functions(k, Te, F, alph) ==
    << [i \in 1..Len(k) |-> AdmFn(k[i], Te, F, alph)],
       [i \in 1..Len(k) |-> CohFn(k[i], Te, F, alph)] >>

flex_real_xspec_functions_3(k, Te, F) ==
    flex_real_xspec_functions(k, Te, F, alph_default)

----------------------------------------------------------------------------
(* Forward model adapters, lines 37-93 *)

(* faulty variant of real_xspec_functions_noalpha: a phase of 0 *)
noalpha_zero_phase(k, Te, F) == flex_real_xspec_functions(k, Te, F, 0)

real_xspec_functions_noalpha(k, Te, F) ==
    LET out == flex_real_xspec_functions_3(k, Te, F)
    IN  <<out[1], out[2]>>

real_xspec_functions_alpha(k, Te, F, alpha) ==
    LET out == flex_real_xspec_functions(k, Te, F, alpha)
    IN  <<out[1], out[2]>>

----------------------------------------------------------------------------
(* numpy helpers used by the joint mode, lines 195 and 198 *)

(* np.array([a, b]) of two equal-length vectors is a 2 x N matrix; of two  *)
(* vectors of different lengths it is no numeric array                     *)
Ragged(a, b) == Len(a) # Len(b)

(* faulty variant of flatten: the columns one after the other *)
flatten_by_columns(m) ==
    LET R == Len(m)
        N == Len(m[1])
    IN  [i \in 1..(R * N) |-> m[((i - 1) % R) + 1][((i - 1) \div R) + 1]]

(* ndarray.flatten(): the rows of the matrix one after the other *)
flatten(m) ==
    LET R == Len(m)
        N == Len(m[1])
    IN  [i \in 1..(R * N) |-> m[((i - 1) \div N) + 1][((i - 1) % N) + 1]]

(* tt.flatten of a vector leaves it as it is; tt.concatenate joins *)
tt_flatten(v) == v

----------------------------------------------------------------------------
(* Nodes of the pm.Model, lines 160-203.                                   *)
(*   observed = TRUE : the node is fixed to data                           *)
(*   mu              : the forward outputs whose concatenation is the mean *)
(*                     (<<>> when the mean is the constant mu_const)       *)
(*   scale           : "1" for sigma=1., or the name of the node used      *)
(*   lower, upper    : support of a Uniform prior, in 1e-5                 *)

Observed(name, mu, mu_const, scale, data) ==
    [name |-> name, dist |-> "Normal", observed |-> TRUE, data |-> data,
     mu |-> mu, mu_const |-> mu_const, scale |-> scale,
     lower |-> 0, upper |-> 0]

Uniform(name, lower, upper) ==
    [name |-> name, dist |-> "Uniform", observed |-> FALSE, data |-> <<>>,
     mu |-> <<>>, mu_const |-> <<>>, scale |-> "",
     lower |-> lower, upper |-> upper]

(* line 163 *)
k_obs(k) == Observed("k", <<>>, k, "1", k)

(* faulty variant of Priors: alpha is declared before Te and F *)
alpha_first(atyp) ==
    (IF atyp THEN <<Uniform("alpha", 0, 314159)>> ELSE <<>>)
    \o <<Uniform("Te", 200000, 25000000), Uniform("F", 0, 99999)>>

(* lines 166-171 *)
Priors(atyp) ==
    <<Uniform("Te", 200000, 25000000), Uniform("F", 0, 99999)>>
    \o (IF atyp THEN <<Uniform("alpha", 0, 314159)>> ELSE <<>>)

(* faulty variant of sigma_node: sigma is a parameter to estimate *)
sigma_free(e) ==
    [name |-> "sigma", dist |-> "HalfNormal", observed |-> FALSE,
     data |-> <<>>, mu |-> <<>>, mu_const |-> <<>>, scale |-> "1",
     lower |-> 0, upper |-> 0]

(* lines 179, 187, 196: sigma is a Normal observed at the uncertainties *)
sigma_node(e) == Observed("sigma", <<>>, e, "1", e)

(* faulty variant of mode_nodes: the uncertainties of the other channel *)
mode_nodes_crossed(a) ==
    CASE a.typ = "admit" ->
            << sigma_node(a.ecoh),
               Observed("admit_obs", <<"admit_exp">>, <<>>, "sigma", a.adm) >>
      [] a.typ = "coh" ->
            << sigma_node(a.eadm),
               Observed("coh_obs", <<"coh_exp">>, <<>>, "sigma", a.coh) >>
      [] a.typ = "admit_coh" ->
            << sigma_node(flatten(<<a.ecoh, a.eadm>>)),
               Observed("admit_coh_obs", <<"admit_exp", "coh_exp">>, <<>>,
                        "sigma", flatten(<<a.adm, a.coh>>)) >>
      [] OTHER -> <<>>

(* lines 177-203: the nodes the mode adds *)
mode_nodes(a) ==
    CASE a.typ = "admit" ->
            << sigma_node(a.eadm),
               Observed("admit_obs", <<"admit_exp">>, <<>>, "sigma", a.adm) >>
      [] a.typ = "coh" ->
            << sigma_node(a.ecoh),
               Observed("coh_obs", <<"coh_exp">>, <<>>, "sigma", a.coh) >>
      [] a.typ = "admit_coh" ->
            << sigma_node(flatten(<<a.eadm, a.ecoh>>)),
               Observed("admit_coh_obs", <<"admit_exp", "coh_exp">>, <<>>,
                        "sigma", flatten(<<a.adm, a.coh>>)) >>
      [] OTHER -> <<>>

(* lines 160-203 *)
Nodes(a) == <<k_obs(a.k)>> \o Priors(a.atyp) \o mode_nodes(a)

(* What stops the construction.  The code checks nothing itself; pymc3     *)
(* evaluates every node on test values while the model is built, so the    *)
(* element-wise likelihood of a mean of length L (a forward output, never  *)
(* broadcast), data of length a and sigma of length e raises unless a and  *)
(* e are each L or 1.  In the joint mode np.array of two vectors of        *)
(* different lengths cannot be made a float vector.                        *)
Fits(dataLen, meanLen) == dataLen = meanLen \/ dataLen = 1

BuildFails(a) ==
    CASE a.typ = "admit" ->
            ~(Fits(Len(a.adm), Len(a.k)) /\ Fits(Len(a.eadm), Len(a.k)))
      [] a.typ = "coh" ->
            ~(Fits(Len(a.coh), Len(a.k)) /\ Fits(Len(a.ecoh), Len(a.k)))
      [] a.typ = "admit_coh" ->
            \/ Ragged(a.eadm, a.ecoh)
            \/ Ragged(a.adm, a.coh)
            \/ ~Fits(2 * Len(a.adm), 2 * Len(a.k))
            \/ ~Fits(2 * Len(a.eadm), 2 * Len(a.k))
      [] OTHER -> FALSE

(* Readings of a model *)
NodeOf(m, name) == m[CHOOSE i \in 1..Len(m) : m[i].name = name]
IsFree(n) == ~n.observed
FreeRVs(m) == SelectSeq(m, IsFree)
FreeNames(m) == {m[i].name : i \in {j \in 1..Len(m) : ~m[j].observed}}
IsLikelihood(n) == n.observed /\ n.mu # <<>>
Likelihoods(m) == SelectSeq(m, IsLikelihood)

----------------------------------------------------------------------------
(* The sampler, line 206.  The values a chain visits stand for what the    *)
(* MCMC kernel proposes: they are fixed by the seed, the chain and the     *)
(* step, and lie in the priors' supports.                                  *)

TeV == <<39996, 40004, 40476>>
FV == <<486, 494, 966>>
AlphaV == <<1566, 1574, 2046>>
OtherV == <<66, 74, 546>>

ValueOf(name, i) ==
    CASE name = "Te" -> TeV[i]
      [] name = "F" -> FV[i]
      [] name = "alpha" -> AlphaV[i]
      [] OTHER -> OtherV[i]

Point(m, i) == [n \in FreeNames(m) |-> ValueOf(n, i)]

DrawIndex(s, c, j) == ((s + c + j) % 3) + 1

(* the forward outputs at a point: lines 170-174 *)
Forward(a, p) ==
    IF a.atyp
    THEN real_xspec_functions_alpha(a.k, p["Te"], p["F"], p["alpha"])
    ELSE real_xspec_functions_noalpha(a.k, p["Te"], p["F"])

Output(fwd, name) == IF name = "admit_exp" THEN fwd[1] ELSE fwd[2]

(* the mean of a likelihood node at a point: lines 182, 190, 199 *)
MeanAt(node, a, p) ==
    tt_flatten(Concatenate([i \in 1..Len(node.mu) |->
                               Output(Forward(a, p), node.mu[i])]))

LikelihoodMean(m, a, p) ==
    IF Likelihoods(m) = <<>> THEN <<>> ELSE MeanAt(Likelihoods(m)[1], a, p)

(* the value of the node a likelihood uses as its scale *)
ScaleOf(m, node) == NodeOf(m, node.scale).data

ChainDone(c) ==
    chain[c].tuned = cf.tunes /\ Len(chain[c].draws) = cf.samples

(* faulty variant of AllChainsDone: the first finished chain is enough *)
AnyChainDone == \E c \in 1..Chains : ChainDone(c)

(* pm.sample returns when every chain has finished *)
AllChainsDone == \A c \in 1..Chains : ChainDone(c)

----------------------------------------------------------------------------
(* pm.find_MAP, line 209: the dict holds the free parameters *)

TeMap == <<39260, 39300>>
FMap == <<494, 498>>
AlphaMap == <<1571, 1575>>
OtherMap == <<70, 71>>

MapValue(name, i) ==
    CASE name = "Te" -> TeMap[i]
      [] name = "F" -> FMap[i]
      [] name = "alpha" -> AlphaMap[i]
      [] OTHER -> OtherMap[i]

find_MAP(m, method) ==
    [n \in FreeNames(m) |-> MapValue(n, IF method = "Powell" THEN 2 ELSE 1)]

----------------------------------------------------------------------------
(* pm.summary(trace).round(2), line 212 *)

(* the value num/den rounded to 2 decimals, halves to even *)
round2(num, den) ==
    LET unit == 10 * den
        q == num \div unit
        twice == 2 * (num - q * unit)
    IN  IF twice < unit THEN 10 * q
        ELSE IF twice > unit THEN 10 * (q + 1)
        ELSE IF q % 2 = 0 THEN 10 * q ELSE 10 * (q + 1)

(* all draws of one parameter, chain after chain *)
ValuesOf(tr, name) ==
    Concatenate([c \in 1..Len(tr) |->
                    [j \in 1..Len(tr[c]) |-> tr[c][j][name]]])

(* faulty variant of mean: divides by n - 1 *)
mean_dropping_one(x) == round2(SeqSum(x), Len(x) - 1)

mean(x) == round2(SeqSum(x), Len(x))

(* the standard deviation sqrt(sum((x - mean)^2) / n), rounded: the        *)
(* multiple 10q of 0.01 with (10q - 5)^2 <= Q / n^3 < (10q + 5)^2, where   *)
(* Q = sum((n x - sum(x))^2)                                               *)
RECURSIVE SdSearch(_, _, _)
SdSearch(Q, n3, q) ==
    IF Q < (10 * q + 5) * (10 * q + 5) * n3 THEN q ELSE SdSearch(Q, n3, q + 1)

sd(x) ==
    LET n == Len(x)
        S == SeqSum(x)
        Q == SeqSum([i \in 1..n |-> (n * x[i] - S) * (n * x[i] - S)])
    IN  10 * SdSearch(Q, n * n * n, 0)

(* the 95% highest-posterior-density interval of the sorted draws: the     *)
(* narrowest of the intervals x[i] .. x[i + floor(0.95 n)], the first of   *)
(* them when several are as narrow                                         *)
hpd(x) ==
    LET n == Len(x)
        interval_idx_inc == (95 * n) \div 100
        n_intervals == n - interval_idx_inc
        width(i) == x[i + interval_idx_inc] - x[i]
        min_idx == CHOOSE i \in 1..n_intervals :
                      /\ \A j \in 1..n_intervals : width(i) <= width(j)
                      /\ \A j \in 1..(i - 1) : width(j) > width(i)
    IN  <<x[min_idx], x[min_idx + interval_idx_inc]>>

(* one row: mean, sd, hpd_2.5, hpd_97.5 (mc_error, n_eff and Rhat, which   *)
(* stand between and after them in the table, are left out)                *)
Row(name, x) ==
    LET h == hpd(np_sort(x))
    IN  [name |-> name,
         values |-> <<mean(x), sd(x), round2(h[1], 1), round2(h[2], 1)>>]

pm_summary(tr, m) ==
    [i \in 1..Len(FreeRVs(m)) |->
        Row(FreeRVs(m)[i].name, ValuesOf(tr, FreeRVs(m)[i].name))]

----------------------------------------------------------------------------
(* get_Te_F, lines 218-253 *)

get_Te_F(map, summ) ==
    LET mean_te == summ[1].values[1]
        std_te == summ[1].values[2]
        best_te == map["Te"]
        mean_F == summ[2].values[1]
        std_F == summ[2].values[2]
        best_F == map["F"]
    IN  <<mean_te, std_te, best_te, mean_F, std_F, best_F>>

----------------------------------------------------------------------------
(* States *)

VecNames == {"k", "adm", "eadm", "coh", "ecoh"}

(* lengths of the five vectors: all equal, or one of them different *)
InputLens ==
    {l \in [VecNames -> 1..MaxLen] :
        \E N \in 1..MaxLen : Cardinality({v \in VecNames : l[v] # N}) <= 1}

Args(l, atyp, typ) ==
    [k |-> Vec(0, l["k"]), adm |-> Vec(100, l["adm"]),
     eadm |-> Vec(200, l["eadm"]), coh |-> Vec(300, l["coh"]),
     ecoh |-> Vec(400, l["ecoh"]), atyp |-> atyp, typ |-> typ]

NewChain == [tuned |-> 0, draws |-> <<>>, point |-> <<>>, mu |-> <<>>]

Init ==
    /\ cf = [samples |-> Samples, tunes |-> Tunes]
    /\ \E l \in InputLens, atyp \in BOOLEAN, typ \in Modes :
          args = Args(l, atyp, typ)
    /\ seed \in Seeds
    /\ pc = "call"
    /\ admit_model = <<>>
    /\ step = "none"
    /\ chain = [c \in 1..Chains |-> NewChain]
    /\ trace = <<>>
    /\ map_method = "none"
    /\ map_estimate = <<>>
    /\ summary = <<>>
    /\ result = <<>>
    /\ err = ""

(* lines 160-203: the model is built, or building it raises *)
BuildModel ==
    /\ pc = "call"
    /\ IF BuildFails(args)
       THEN /\ pc' = "error"
            /\ err' = "ValueError"
            /\ UNCHANGED admit_model
       ELSE /\ pc' = "built"
            /\ admit_model' = Nodes(args)
            /\ UNCHANGED err
    /\ UNCHANGED <<cf, args, seed, step, chain, trace, map_method,
                   map_estimate, summary, result>>

(* line 206, start of pm.sample: NUTS is initialised, or initialising it   *)
(* fails and the step methods are assigned element-wise (lines 139-147)    *)
(* faulty variant of assign_step: the failure is raised to the caller *)
init_failure_raised(nuts_ok) ==
    IF nuts_ok
    THEN [step |-> "NUTS", pc |-> "sampling", err |-> ""]
    ELSE [step |-> "none", pc |-> "error", err |-> "NotImplementedError"]

assign_step(nuts_ok) ==
    IF nuts_ok
    THEN [step |-> "NUTS", pc |-> "sampling", err |-> ""]
    ELSE [step |-> "CompoundStep", pc |-> "sampling", err |-> ""]

SampleStart ==
    /\ pc = "built"
    /\ \E nuts_ok \in BOOLEAN :
          /\ step' = assign_step(nuts_ok).step
          /\ pc' = assign_step(nuts_ok).pc
          /\ err' = assign_step(nuts_ok).err
    /\ UNCHANGED <<cf, args, seed, admit_model, chain, trace, map_method,
                   map_estimate, summary, result>>

(* line 206, one step of one chain: cf.tunes tuning steps whose draws are  *)
(* discarded, then cf.samples draws that are kept                          *)
ChainStep(c) ==
    /\ pc = "sampling"
    /\ ~ChainDone(c)
    /\ LET ch == chain[c]
           j == ch.tuned + Len(ch.draws) + 1
           p == Point(admit_model, DrawIndex(seed, c, j))
           m == LikelihoodMean(admit_model, args, p)
       IN  chain' = [chain EXCEPT ![c] =
                IF ch.tuned < cf.tunes
                THEN [ch EXCEPT !.tuned = ch.tuned + 1, !.point = p, !.mu = m]
                ELSE [ch EXCEPT !.draws = Append(ch.draws, p), !.point = p,
                                !.mu = m]]
    /\ UNCHANGED <<cf, args, seed, pc, admit_model, step, trace, map_method,
                   map_estimate, summary, result, err>>

(* line 206, pm.sample returns the trace of the finished chains *)
SampleJoin ==
    /\ pc = "sampling"
    /\ AllChainsDone
    /\ trace' = [c \in 1..Chains |-> chain[c].draws]
    /\ pc' = "sampled"
    /\ UNCHANGED <<cf, args, seed, admit_model, step, chain, map_method,
                   map_estimate, summary, result, err>>

(* line 209: with gradients, or without them by Powell's method (line 150) *)
FindMAP ==
    /\ pc = "sampled"
    /\ \E gradient_ok \in BOOLEAN :
          map_method' = IF gradient_ok THEN "L-BFGS-B" ELSE "Powell"
    /\ map_estimate' = find_MAP(admit_model, map_method')
    /\ pc' = "mapped"
    /\ UNCHANGED <<cf, args, seed, admit_model, step, chain, trace, summary,
                   result, err>>

(* lines 212-214 *)
Summary ==
    /\ pc = "mapped"
    /\ summary' = pm_summary(trace, admit_model)
    /\ pc' = "returned"
    /\ UNCHANGED <<cf, args, seed, admit_model, step, chain, trace,
                   map_method, map_estimate, result, err>>

(* lines 245-253, on what bayes_real_estimate returned *)
GetTeF ==
    /\ pc = "returned"
    /\ result' = get_Te_F(map_estimate, summary)
    /\ pc' = "extracted"
    /\ UNCHANGED <<cf, args, seed, admit_model, step, chain, trace,
                   map_method, map_estimate, summary, err>>

Next ==
    \/ BuildModel
    \/ SampleStart
    \/ \E c \in 1..Chains : ChainStep(c)
    \/ SampleJoin
    \/ FindMAP
    \/ Summary
    \/ GetTeF

Spec == Init /\ [][Next]_vars

----------------------------------------------------------------------------
(* Runs whose trace is arbitrary: the call has built its model and         *)
(* pm.sample has returned cf.samples draws per chain, any multiset of the  *)
(* three values of each parameter (n1 of the first, n2 of the second).     *)

HpdTrace(m, S, n1, n2) ==
    LET idx(i) == IF i <= n1 THEN 1 ELSE IF i <= n1 + n2 THEN 2 ELSE 3
    IN  [c \in 1..Chains |-> [j \in 1..S |-> Point(m, idx((c - 1) * S + j))]]

InitHpd ==
    /\ \E S \in 1..MaxHpdSamples : cf = [samples |-> S, tunes |-> Tunes]
    /\ \E atyp \in BOOLEAN :
          args = Args([v \in VecNames |-> MaxLen], atyp, "admit_coh")
    /\ seed = 0
    /\ pc = "sampled"
    /\ admit_model = Nodes(args)
    /\ step = "CompoundStep"
    /\ \E n1 \in 0..(Chains * cf.samples) :
          \E n2 \in 0..(Chains * cf.samples - n1) :
             trace = HpdTrace(admit_model, cf.samples, n1, n2)
    /\ chain = [c \in 1..Chains |->
                  [tuned |-> cf.tunes, draws |-> trace[c],
                   point |-> trace[c][cf.samples],
                   mu |-> LikelihoodMean(admit_model, args,
                                         trace[c][cf.samples])]]
    /\ map_method = "none"
    /\ map_estimate = <<>>
    /\ summary = <<>>
    /\ result = <<>>
    /\ err = ""

NextHpd == FindMAP \/ Summary \/ GetTeF

SpecHpd == InitHpd /\ [][NextHpd]_vars

----------------------------------------------------------------------------
(* Properties *)

AllEqualLengths == \A v \in VecNames : Len(args[v]) = Len(args.k)
ValidMode == args.typ \in ValidModes
Built == pc \notin {"call", "error"}
Returned == pc \in {"returned", "extracted"}
ExpectedFree == IF args.atyp THEN {"Te", "F", "alpha"} ELSE {"Te", "F"}
RowNamed(name) ==
    summary[CHOOSE i \in 1..Len(summary) : summary[i].name = name]
RowNames == {summary[i].name : i \in 1..Len(summary)}

(* C1: a call whose typ is none of 'admit', 'coh', 'admit_coh' ends in an  *)
(* error and never reaches sampling, MAP optimisation or the summary.      *)
InvalidModeRaises == ~ValidMode => pc \in {"call", "error"}

(* C2: a call whose five vectors do not all have the same length ends in   *)
(* an error raised before the model is built and before any sampling.      *)
MismatchedLengthsRaise == ~AllEqualLengths => pc \in {"call", "error"}

(* C3: in the joint mode with N equal-length inputs, the observed vector   *)
(* of the likelihood has length 2N and is adm then coh, sigma is eadm then *)
(* ecoh, the predicted mean is the forward admittance then the forward     *)
(* coherence: index i of each is channel (i-1) div N, wavenumber           *)
(* (i-1) mod N.                                                            *)
JointVectorsAligned ==
    (Built /\ args.typ = "admit_coh" /\ AllEqualLengths) =>
        LET N == Len(args.k)
            lik == NodeOf(admit_model, "admit_coh_obs")
            sig == ScaleOf(admit_model, lik)
            w(i) == ((i - 1) % N) + 1
            first(i) == i <= N
        IN  /\ Len(lik.data) = 2 * N
            /\ Len(sig) = 2 * N
            /\ \A i \in 1..(2 * N) :
                  /\ lik.data[i] =
                        IF first(i) THEN args.adm[w(i)] ELSE args.coh[w(i)]
                  /\ sig[i] =
                        IF first(i) THEN args.eadm[w(i)] ELSE args.ecoh[w(i)]
            /\ \A c \in 1..Chains :
                  chain[c].point # <<>> =>
                     LET fwd == Forward(args, chain[c].point)
                     IN  /\ Len(chain[c].mu) = 2 * N
                         /\ \A i \in 1..(2 * N) :
                               chain[c].mu[i] =
                                  IF first(i) THEN fwd[1][w(i)]
                                  ELSE fwd[2][w(i)]

JointModeSampled ==
    /\ args.typ = "admit_coh"
    /\ Len(args.k) >= 2
    /\ pc = "sampling"
    /\ \A c \in 1..Chains : chain[c].point # <<>>

(* C4: every valid mode builds exactly one sigma node and one likelihood:  *)
(* 'admit' binds forward admittance, eadm, adm; 'coh' binds forward        *)
(* coherence, ecoh, coh; 'admit_coh' binds the concatenations; no          *)
(* admittance quantity is bound to a coherence quantity.                   *)
ModeBindings ==
    (Built /\ ValidMode) =>
        LET sigmas == SelectSeq(admit_model, LAMBDA n : n.name = "sigma")
            liks == Likelihoods(admit_model)
            lik == liks[1]
        IN  /\ Len(sigmas) = 1
            /\ Len(liks) = 1
            /\ lik.scale = "sigma"
            /\ sigmas[1].observed
            /\ CASE args.typ = "admit" ->
                      /\ lik.mu = <<"admit_exp">>
                      /\ sigmas[1].data = args.eadm
                      /\ lik.data = args.adm
                 [] args.typ = "coh" ->
                      /\ lik.mu = <<"coh_exp">>
                      /\ sigmas[1].data = args.ecoh
                      /\ lik.data = args.coh
                 [] args.typ = "admit_coh" ->
                      /\ lik.mu = <<"admit_exp", "coh_exp">>
                      /\ sigmas[1].data = args.eadm \o args.ecoh
                      /\ lik.data = args.adm \o args.coh

ValidModeBuilt == pc = "built" /\ ValidMode /\ Len(args.k) = MaxLen

ExtractsTeThenF ==
    (pc = "extracted" /\ ValidMode) =>
        /\ summary[1].name = "Te"
        /\ summary[2].name = "F"
        /\ result = << RowNamed("Te").values[1], RowNamed("Te").values[2],
                       map_estimate["Te"],
                       RowNamed("F").values[1], RowNamed("F").values[2],
                       map_estimate["F"] >>

ExtractedWithAlpha ==
    /\ pc = "extracted" /\ ValidMode /\ args.atyp
    /\ result[1] # result[4]
    /\ result[3] # result[6]

(* C7 as stated: in every row of the summary hpd_2.5 <= mean <= hpd_97.5,  *)
(* whatever the draws.                                                     *)
HpdContainsMean ==
    Returned =>
        \A i \in 1..Len(summary) :
            /\ summary[i].values[3] <= summary[i].values[1]
            /\ summary[i].values[1] <= summary[i].values[4]

(* C7 as amended: in every row hpd_2.5 <= hpd_97.5, and the mean and both  *)
(* bounds lie between the smallest and the largest draw of the parameter,  *)
(* rounded to 2 decimals.                                                  *)
HpdAndMeanWithinDraws ==
    Returned =>
        \A i \in 1..Len(summary) :
            LET x == np_sort(ValuesOf(trace, summary[i].name))
                lo == round2(x[1], 1)
                hi == round2(x[Len(x)], 1)
                v == summary[i].values
            IN  /\ v[3] <= v[4]
                /\ lo <= v[1] /\ v[1] <= hi
                /\ lo <= v[3] /\ v[4] <= hi

MeanOutsideHpd ==
    /\ Returned
    /\ \E i \in 1..Len(summary) :
          summary[i].values[1] > summary[i].values[4]

AggregationAfterJoin ==
    [][ /\ pc' \in {"sampled", "mapped", "returned", "extracted"} =>
              \A c \in 1..Chains :
                  /\ chain'[c].tuned = cf.tunes
                  /\ Len(chain'[c].draws) = cf.samples
                  /\ trace'[c] = chain'[c].draws
        /\ pc \in {"built", "sampling", "sampled"} =>
              admit_model' = admit_model ]_vars

MapAfterAllChains ==
    /\ pc = "mapped"
    /\ \A c \in 1..Chains : Len(trace[c]) = Samples /\ chain[c].tuned = Tunes

(* C10: when initialising NUTS fails the run goes on with CompoundStep,    *)
(* when MAP has no gradients it goes on with Powell: a call never ends in  *)
(* an error once its model is built, it can always take a next step until  *)
(* its result is extracted, and it returns a trace, a MAP estimate and a   *)
(* summary.                                                                *)
FallbackCompletes ==
    /\ pc = "error" => admit_model = <<>> /\ step = "none"
    /\ Built =>
          /\ \/ pc = "extracted"
             \/ pc \in {"mapped", "returned"}   \* Summary, GetTeF: no guard
             \/ ENABLED (SampleStart \/ (\E c \in 1..Chains : ChainStep(c))
                           \/ SampleJoin \/ FindMAP)
          /\ pc \in {"sampling", "sampled", "mapped", "returned", "extracted"}
                => step \in {"NUTS", "CompoundStep"}
          /\ pc \in {"mapped", "returned", "extracted"}
                => map_method \in {"L-BFGS-B", "Powell"}
          /\ Returned =>
                /\ Len(trace) = Chains
                /\ \A c \in 1..Chains : Len(trace[c]) = cf.samples
                /\ DOMAIN map_estimate = FreeNames(admit_model)
                /\ Len(summary) = Cardinality(FreeNames(admit_model))

FellBackTwiceAndReturned ==
    /\ pc = "returned"
    /\ step = "CompoundStep"
    /\ map_method = "Powell"
    /\ Len(trace) = Chains
    /\ Len(summary) >= 2

====
